---- MODULE Spec2Model ----
(***************************************************************************)
(* Model of src/api.py (LoL Tracker API): the /procesar-partidas/ request  *)
(* handler with its match cache, match filter, streak bank and dynamic     *)
(* points, the daily bank job, and the SQLite tables they share.           *)
(*                                                                         *)
(* Time is counted in ticks; a calendar day is DayLen ticks.  A timestamp  *)
(* formatted by strftime is the record [date, time]; a date string is the  *)
(* day number.  The server's local zone and CHILE_TZ are taken to be the   *)
(* same zone.                                                              *)
(*                                                                         *)
(* SQLite serialises write transactions (one connection holds the write    *)
(* lock from its first INSERT/UPDATE to its COMMIT, and other connections  *)
(* read the last committed state), so each write transaction of the code   *)
(* is one atomic step here; the reads and the network calls between the    *)
(* transactions are separate steps that other handlers can interleave.     *)
(***************************************************************************)
EXTENDS Integers, Sequences, FiniteSets, TLC

VARIABLES
  now,           \* wall clock, in ticks
  played,        \* provider: payloads of the matches played, index = match id
  matches,       \* table matches
  match_events,  \* table match_events
  streak_bank,   \* table streak_bank
  user_points,   \* table user_points
  match_cache,   \* table match_cache
  hs,            \* request handlers: locals and position of each
  fetched,       \* per match id, successful network fetches of its payload
  evs,           \* scoring harness: the day's event rows given to the scorer
  scoreOut,      \* scoring harness: what calculate_dynamic_points returned
  bk,            \* streak bank harness: the calls made on streak_bank
  sched          \* scheduler thread: its position and the job's next run

vars == <<now, played, matches, match_events, streak_bank, user_points,
          match_cache, hs, fetched, evs, scoreOut, bk, sched>>

dbvars == <<matches, match_events, streak_bank, user_points, match_cache>>

\* ---------------------------------------------------------------- bounds
MaxMatches  == 2    \* matches played, general specification
MaxMatchesQ == 6    \* matches played, quota specification
MaxMatchesR == 1    \* matches played, concurrent specification
MaxMatchesD == 2    \* matches played, specification over days
MaxMatchesF == 2    \* matches played, specification with sqlite errors
MaxMatchesS == 2    \* matches played, specification with the scheduler
MaxMatchesN == 2    \* matches played, specification with overnight matches
MaxDay      == 1    \* last calendar day reached by NextDay
MaxEvents   == 7    \* length of the event sequences given to the scorer
DayLen      == 8    \* ticks per calendar day
MaxPending  == 2    \* largest pending_streak of a starting streak_bank row
MaxBankCalls == 2   \* calls of mark_streak_banked in the streak bank harness

\* ------------------------------------------------------- program constants
DAILY_DEF_LIMIT         == 5
POINTS_PER_VICTORY_BASE == 5
ALLOWED_QUEUES          == {400, 420, 440}
RECENT_MATCH_COUNT      == 20
MinDuration             == 300

FULL_WORKOUT ==
  << <<"Sentadillas", 40>>,
     <<"Zancadas (lunges)", 20>>,
     <<"Flexiones convencionales", 20>>,
     <<"Flexiones palmas juntas", 10>>,
     <<"Curl isometrico con toalla", 15>>,
     <<"Superman lumbares", 15>>,
     <<"Plancha frontal (segundos)", 60>>,
     <<"Crunches", 30>>,
     <<"Jumping Jacks", 30>>,
     <<"Saltos de sentadilla", 20>> >>

\* ------------------------------------------------------------ identities
Players  == {"A", "B"}
Handlers == {"h1", "h2"}
SeqHandlers == {"h1"}

\* get_puuid: the provider's stable key of a Riot id
get_puuid(s) == "puuid-" \o s

\* ------------------------------------------------------------------ time
Day(t) == t \div DayLen

\* strftime("%Y-%m-%d %H:%M:%S %Z") of a timestamp
Strftime(t) == [date |-> Day(t), time |-> t % DayLen]

\* strftime("%Y-%m-%d") of a timestamp
DateStr(t) == Day(t)

\* local_now.replace(hour=0, minute=0, second=0, microsecond=0)
CutoffOf(t) == Day(t) * DayLen

\* SQL text comparison  stamp >= 'YYYY-MM-DD'  of a formatted timestamp
StampGeDate(stamp, date) == stamp.date >= date

\* SQL text order of two formatted timestamps
StampLess(a, b) ==
  \/ a.date < b.date
  \/ a.date = b.date /\ a.time < b.time

\* ------------------------------------------------------------- exercises
generate_base_plan_scaled_once(defeats) ==
  [i \in 1..Len(FULL_WORKOUT) |->
     [nombre |-> FULL_WORKOUT[i][1],
      reps   |-> IF i = 1 THEN FULL_WORKOUT[i][2] * defeats
                          ELSE FULL_WORKOUT[i][2]]]

generate_base_plan(defeats) ==
  [i \in 1..Len(FULL_WORKOUT) |->
     [nombre |-> FULL_WORKOUT[i][1], reps |-> FULL_WORKOUT[i][2] * defeats]]

\* ---------------------------------------------------------------- scoring
\* the loop of calculate_dynamic_points over the rows of the day
ScoreInit ==
  [points |-> 0, streak |-> 0, defeats |-> 0,
   p_per_victory |-> POINTS_PER_VICTORY_BASE, stop |-> FALSE]

ScoreStepNoEscalation(a, event) ==
  IF a.stop THEN a
  ELSE IF event = "victoria" THEN [a EXCEPT !.streak = a.streak + 1]
  ELSE IF event = "derrota" THEN
    LET gained == a.streak * a.p_per_victory IN
      [points        |-> a.points + gained,
       streak        |-> 0,
       defeats       |-> a.defeats + 1,
       p_per_victory |-> a.p_per_victory,
       stop          |-> a.defeats + 1 >= DAILY_DEF_LIMIT]
  ELSE a

ScoreStep(a, event) ==
  IF a.stop THEN a
  ELSE IF event = "victoria" THEN [a EXCEPT !.streak = a.streak + 1]
  ELSE IF event = "derrota" THEN
    LET gained == a.streak * a.p_per_victory IN
      [points        |-> a.points + gained,
       streak        |-> 0,
       defeats       |-> a.defeats + 1,
       p_per_victory |-> a.p_per_victory + gained,
       stop          |-> a.defeats + 1 >= DAILY_DEF_LIMIT]
  ELSE a

RECURSIVE ScoreLoop(_, _, _)
ScoreLoop(a, rows, i) ==
  IF i > Len(rows) THEN a ELSE ScoreLoop(ScoreStep(a, rows[i]), rows, i + 1)

calculate_dynamic_points_no_trailing(rows) ==
  ScoreLoop(ScoreInit, rows, 1).points

calculate_dynamic_points(rows) ==
  LET a == ScoreLoop(ScoreInit, rows, 1) IN
    IF a.streak > 0 THEN a.points + a.streak * a.p_per_victory
    ELSE a.points

\* -------------------------------------------------------------- provider
\* payload shapes the provider can hold for a match (timestamps are set
\* when the match is played)
KindShared    == [gameDuration |-> 1800, queueId |-> 420,
                  gameEndedInEarlySurrender |-> FALSE,
                  participants |-> {[puuid |-> get_puuid("A"), win |-> TRUE],
                                    [puuid |-> get_puuid("B"), win |-> FALSE]}]
KindLoss      == [gameDuration |-> 1800, queueId |-> 440,
                  gameEndedInEarlySurrender |-> FALSE,
                  participants |-> {[puuid |-> get_puuid("A"), win |-> FALSE]}]
KindShort     == [gameDuration |-> 299, queueId |-> 420,
                  gameEndedInEarlySurrender |-> FALSE,
                  participants |-> {[puuid |-> get_puuid("A"), win |-> TRUE]}]
KindSurrender == [gameDuration |-> 300, queueId |-> 400,
                  gameEndedInEarlySurrender |-> TRUE,
                  participants |-> {[puuid |-> get_puuid("A"), win |-> FALSE]}]
KindAram      == [gameDuration |-> 1800, queueId |-> 450,
                  gameEndedInEarlySurrender |-> FALSE,
                  participants |-> {[puuid |-> get_puuid("A"), win |-> TRUE]}]

AllKinds   == {KindShared, KindLoss, KindShort, KindSurrender, KindAram}
QuotaKinds == {KindShared, KindLoss}
RaceKinds  == {KindShared}

Payload(kind, created, ended) ==
  [gameCreation |-> created, gameEndTimestamp |-> ended,
   gameDuration |-> kind.gameDuration, queueId |-> kind.queueId,
   gameEndedInEarlySurrender |-> kind.gameEndedInEarlySurrender,
   participants |-> kind.participants]

\* newest first, at most count ids
RECURSIVE NewestFirst(_, _)
NewestFirst(n, count) ==
  IF n = 0 \/ count = 0 THEN <<>>
  ELSE <<n>> \o NewestFirst(n - 1, count - 1)

fetch_recent_matches(history) == NewestFirst(Len(history), RECENT_MATCH_COUNT)

\* json.dumps / json.loads of the info object
JsonDumps(info) == [json |-> info]
JsonLoads(text) == text.json

\* ------------------------------------------------------------ match filter
\* process_match after the payload is at hand: <<>> is None, <<rec>> a result
PassesFilterNoDuration(info, puuid) ==
  /\ ~info.gameEndedInEarlySurrender
  /\ info.queueId \in ALLOWED_QUEUES
  /\ \E p \in info.participants : p.puuid = puuid

PassesFilter(info, puuid) ==
  /\ ~(info.gameEndedInEarlySurrender \/ info.gameDuration < MinDuration)
  /\ info.queueId \in ALLOWED_QUEUES
  /\ \E p \in info.participants : p.puuid = puuid

process_match(match_id, puuid, summoner_name, info) ==
  IF ~PassesFilter(info, puuid) THEN <<>>
  ELSE
    LET me == CHOOSE p \in info.participants : p.puuid = puuid IN
      << [match_id          |-> match_id,
          queue_id          |-> info.queueId,
          end_timestamp_str |-> Strftime(info.gameEndTimestamp),
          game_creation_str |-> Strftime(info.gameCreation),
          raw_creation      |-> info.gameCreation,
          events            |-> <<IF me.win THEN "victoria" ELSE "derrota">>,
          summoner_name     |-> summoner_name] >>

\* ----------------------------------------------------------------- queries
\* SELECT COUNT(*) FROM match_events me JOIN matches m ... WHERE me.event=?
\*   AND m.game_creation>=? AND me.summoner_name=?
CountEvents(ms, mes, event, date, summoner) ==
  Cardinality({me \in mes :
     /\ me.event = event
     /\ me.summoner_name = summoner
     /\ \E m \in ms : m.match_id = me.match_id
                       /\ StampGeDate(m.game_creation, date)})

\* SELECT m.end_timestamp, me.event ... ORDER BY m.end_timestamp
JoinedRowsAllDays(ms, mes, date, summoner) ==
  {[ts |-> m.end_timestamp, event |-> me.event, match_id |-> m.match_id] :
     <<m, me>> \in {x \in ms \X mes :
        /\ x[1].match_id = x[2].match_id
        /\ x[2].summoner_name = summoner}}

JoinedRows(ms, mes, date, summoner) ==
  {[ts |-> m.end_timestamp, event |-> me.event, match_id |-> m.match_id] :
     <<m, me>> \in {x \in ms \X mes :
        /\ x[1].match_id = x[2].match_id
        /\ StampGeDate(x[1].game_creation, date)
        /\ x[2].summoner_name = summoner}}

RECURSIVE OrderByTs(_)
OrderByTs(rows) ==
  IF rows = {} THEN <<>>
  ELSE LET r == CHOOSE x \in rows :
                  \A y \in rows : ~StampLess(y.ts, x.ts) /\
                     (y.ts = x.ts => x.match_id <= y.match_id)
       IN <<r.event>> \o OrderByTs(rows \ {r})

DayEventRows(ms, mes, date, summoner) ==
  OrderByTs(JoinedRows(ms, mes, date, summoner))

\* SELECT 1 FROM matches WHERE match_id=? AND summoner_name=?
AlreadyRecorded(ms, mid, summoner) ==
  \E m \in ms : m.match_id = mid /\ m.summoner_name = summoner

\* PRIMARY KEY(match_id) of matches
MatchKeyTaken(ms, mid) == \E m \in ms : m.match_id = mid

MatchRow(rec) ==
  [match_id      |-> rec.match_id,
   queue_id      |-> rec.queue_id,
   end_timestamp |-> rec.end_timestamp_str,
   game_creation |-> rec.game_creation_str,
   summoner_name |-> rec.summoner_name]

EventRow(rec, evt) ==
  [match_id |-> rec.match_id, event |-> evt, summoner_name |-> rec.summoner_name]

\* SELECT info_json FROM match_cache WHERE match_id=?
CacheRows(cache, mid) == {r \in cache : r.match_id = mid}

\* SELECT pending_streak, has_banked FROM streak_bank WHERE date=?
StreakRows(bank, date) == {r \in bank : r.date = date}

\* SELECT total_points, last_accumulated_date FROM user_points WHERE summoner_name=?
PointsRows(points, summoner) == {r \in points : r.summoner_name = summoner}

\* variant: last_date compared whole, never equal to a date
DatePartUnsplit(stamp) == -1

\* last_date.split(" ")[0]: "" for the empty text, else the date part
DatePart(stamp) == IF stamp = <<>> THEN -1 ELSE stamp[1]

\* local_now.strftime("%Y-%m-%d %H:%M:%S")
TimestampStr(t) == <<Day(t), t % DayLen>>

\* --------------------------------------------------------------- handlers
\* optional values are sequences: <<>> for None, <<v>> for a value
IdleHandler ==
  [pc |-> "idle", summoner |-> "", local_now |-> 0, cutoff |-> 0,
   all |-> <<>>, cands |-> <<>>, mid |-> 0, info |-> <<>>, rec |-> <<>>,
   defeats |-> 0, victories |-> 0, processed |-> <<>>, daily_points |-> 0,
   new_total |-> 0, last_accumulated |-> <<>>, resp |-> <<>>,
   fresh |-> FALSE, snap |-> <<>>, first |-> <<>>]

SetH(h, r) == hs' = [hs EXCEPT ![h] = r]

\* an uncaught exception ends the request; its connection is dropped
Raise(h) == [IdleHandler EXCEPT !.pc = "failed", !.summoner = hs[h].summoner,
                                !.mid = hs[h].mid]

\* streak bank harness at rest
NoBankCalls ==
  [start |-> {}, is_victory |-> FALSE, upc |-> "idle", banked_first |-> FALSE,
   banks |-> 0, last |-> <<>>]

Init ==
  /\ now = 0
  /\ played = <<>>
  /\ matches = {}
  /\ match_events = {}
  /\ streak_bank = {}
  /\ user_points = {}
  /\ match_cache = {}
  /\ hs = [h \in Handlers |-> IdleHandler]
  /\ fetched = <<>>
  /\ evs = <<>>
  /\ scoreOut = <<>>
  /\ bk = NoBankCalls
  /\ sched = [thread |-> "ended", next_run |-> <<DayLen>>]

\* ------------------------------------------------------------ environment
\* a match is played and the provider lists it from then on
PlayMatch(kind, max) ==
  /\ Len(played) < max
  /\ played' = Append(played, Payload(kind, now, now + 1))
  /\ fetched' = Append(fetched, 0)
  /\ now' = now + 1
  /\ UNCHANGED <<dbvars, hs, evs, scoreOut, bk, sched>>

\* a match starts now and ends after midnight; the provider lists it then
PlayOvernight(kind, max) ==
  /\ Len(played) < max
  /\ Day(now) < MaxDay
  /\ LET ended == (Day(now) + 1) * DayLen + 1 IN
       /\ played' = Append(played, Payload(kind, now, ended))
       /\ now' = ended
  /\ fetched' = Append(fetched, 0)
  /\ UNCHANGED <<dbvars, hs, evs, scoreOut, bk, sched>>

\* midnight passes
NextDay ==
  /\ Day(now) < MaxDay
  /\ now' = (Day(now) + 1) * DayLen
  /\ UNCHANGED <<played, dbvars, hs, fetched, evs, scoreOut, bk, sched>>

\* ------------------------------------------------------------ streak bank
\* variant: INSERT OR REPLACE of a banked row instead of the UPDATE
mark_streak_banked_upsert(bank, date_str) ==
  {r \in bank : r.date # date_str}
    \cup {[date |-> date_str, pending_streak |-> 0, has_banked |-> 1]}

\* mark_streak_banked: UPDATE streak_bank SET has_banked=1 WHERE date=?
mark_streak_banked(bank, date_str) ==
  {IF r.date = date_str THEN [r EXCEPT !.has_banked = 1] ELSE r : r \in bank}

\* daily_bank_job, when the scheduler invokes it
DailyBankJob ==
  /\ streak_bank' = mark_streak_banked(streak_bank, DateStr(now))
  /\ UNCHANGED <<now, played, matches, match_events, user_points,
                 match_cache, hs, fetched, evs, scoreOut, bk, sched>>

\* update_streak: UPDATE streak_bank SET pending_streak=? WHERE date=?
SetPending(bank, date_str, pending) ==
  {IF r.date = date_str THEN [r EXCEPT !.pending_streak = pending] ELSE r :
     r \in bank}

\* ---------------------------------------------------------- scheduler
\* schedule.every().day.at("00:00").do(daily_bank_job): the job's next run is
\* the coming midnight
RegisterJob(t) == <<(Day(t) + 1) * DayLen>>

\* schedule.run_pending() at time t: a due job runs, daily_bank_job banking
\* the date of t, and is put off by a day
run_pending(s, bank, t) ==
  IF s.next_run # <<>> /\ t >= s.next_run[1]
    THEN [bank |-> mark_streak_banked(bank, DateStr(t)),
          next_run |-> <<s.next_run[1] + DayLen>>]
    ELSE [bank |-> bank, next_run |-> s.next_run]

\* the scheduler thread: it registers the job, calls run_pending() once and
\* ends; nothing calls run_pending() after it
SchedulerThread ==
  /\ sched.thread = "new"
  /\ LET rp == run_pending([sched EXCEPT !.next_run = RegisterJob(now)],
                           streak_bank, now) IN
       /\ streak_bank' = rp.bank
       /\ sched' = [thread |-> "ended", next_run |-> rp.next_run]
  /\ UNCHANGED <<now, played, matches, match_events, user_points,
                 match_cache, hs, fetched, evs, scoreOut, bk>>

\* variant: update_streak without its "if banked: return"
update_streak_begin_unguarded(bank, date_str, is_victory) ==
  LET rows == StreakRows(bank, date_str) IN
    IF rows = {}
      THEN [bank |-> bank \cup {[date |-> date_str, pending_streak |-> 0,
                                 has_banked |-> 0]},
            more |-> TRUE]
      ELSE LET row == CHOOSE r \in rows : TRUE IN
        [bank |-> SetPending(bank, date_str,
                    IF is_victory THEN row.pending_streak + 1 ELSE 0),
         more |-> FALSE]

\* update_streak from its SELECT to its first commit: without a row of the
\* date it inserts one and commits (more: the UPDATE is still to come); with
\* a banked row it returns; else it updates pending_streak and commits
update_streak_begin(bank, date_str, is_victory) ==
  LET rows == StreakRows(bank, date_str) IN
    IF rows = {}
      THEN [bank |-> bank \cup {[date |-> date_str, pending_streak |-> 0,
                                 has_banked |-> 0]},
            more |-> TRUE]
      ELSE LET row == CHOOSE r \in rows : TRUE IN
        IF row.has_banked # 0
          THEN [bank |-> bank, more |-> FALSE]
          ELSE [bank |-> SetPending(bank, date_str,
                           IF is_victory THEN row.pending_streak + 1 ELSE 0),
                more |-> FALSE]

\* update_streak after it inserted the row: pending, banked = 0, 0;
\* UPDATE streak_bank SET pending_streak=? WHERE date=?; commit
update_streak_end(bank, date_str, is_victory) ==
  SetPending(bank, date_str, IF is_victory THEN 0 + 1 ELSE 0)

\* update_streak run without another connection in between
update_streak(bank, date_str, is_victory) ==
  LET b == update_streak_begin(bank, date_str, is_victory) IN
    IF b.more THEN update_streak_end(b.bank, date_str, is_victory) ELSE b.bank

\* ---------------------------------------------------- procesar_partidas
\* entry: day cutoff, the two counts, the candidate ids.  first remembers
\* the outcome of the handler's previous request when this one repeats it
\* (same player, same candidate ids, same day, tables untouched since).
StartRequest(h, s) ==
  /\ hs[h].pc \in {"idle", "done", "failed"}
  /\ LET cutoff == CutoffOf(now)
         date   == DateStr(cutoff)
         d      == CountEvents(matches, match_events, "derrota", date, s)
         v      == CountEvents(matches, match_events, "victoria", date, s)
         ids    == fetch_recent_matches(played)
         again  == /\ hs[h].pc = "done"
                   /\ hs[h].summoner = s
                   /\ hs[h].all = ids
                   /\ hs[h].cutoff = cutoff
                   /\ hs[h].snap = <<matches, match_events>>
     IN /\ SetH(h, [IdleHandler EXCEPT
                      !.pc = "loop", !.summoner = s, !.local_now = now,
                      !.cutoff = cutoff, !.all = ids, !.cands = ids,
                      !.defeats = d, !.victories = v,
                      !.fresh = (d + v = 0),
                      !.first = IF again
                                  THEN <<[snap      |-> hs[h].snap,
                                          derrotas  |-> hs[h].resp[1].derrotas,
                                          victorias |-> hs[h].resp[1].victorias]>>
                                  ELSE <<>>])
  /\ UNCHANGED <<now, played, dbvars, fetched, evs, scoreOut, bk, sched>>

\* for mid in ...: SELECT 1 FROM matches WHERE match_id=? AND summoner_name=?
LoopHead(h) ==
  /\ hs[h].pc = "loop"
  /\ IF hs[h].cands = <<>>
       THEN SetH(h, [hs[h] EXCEPT !.pc = "score", !.mid = 0])
       ELSE LET mid == Head(hs[h].cands) IN
         SetH(h, [hs[h] EXCEPT
                    !.cands = Tail(hs[h].cands),
                    !.mid = mid,
                    !.pc = IF AlreadyRecorded(matches, mid, hs[h].summoner)
                             THEN "loop" ELSE "cache"])
  /\ UNCHANGED <<now, played, dbvars, fetched, evs, scoreOut, bk, sched>>

\* variant: the cutoff test on the end of the match
AfterInfoByEnd(h, info) ==
  LET rec == process_match(hs[h].mid, get_puuid(hs[h].summoner),
                           hs[h].summoner, info)
  IN IF rec = <<>> \/ info.gameEndTimestamp < hs[h].cutoff
       THEN [hs[h] EXCEPT !.pc = "loop", !.info = <<>>, !.rec = <<>>]
       ELSE [hs[h] EXCEPT !.pc = "persist", !.info = <<>>, !.rec = rec]

\* process_match once info is known, then the cutoff test of the loop
AfterInfo(h, info) ==
  LET rec == process_match(hs[h].mid, get_puuid(hs[h].summoner),
                           hs[h].summoner, info)
  IN IF rec = <<>> \/ rec[1].raw_creation < hs[h].cutoff
       THEN [hs[h] EXCEPT !.pc = "loop", !.info = <<>>, !.rec = <<>>]
       ELSE [hs[h] EXCEPT !.pc = "persist", !.info = <<>>, !.rec = rec]

\* process_match: SELECT info_json FROM match_cache WHERE match_id=?
CacheLookup(h) ==
  /\ hs[h].pc = "cache"
  /\ LET rows == CacheRows(match_cache, hs[h].mid) IN
       IF rows # {}
         THEN SetH(h, AfterInfo(h, JsonLoads((CHOOSE r \in rows : TRUE).info_json)))
         ELSE SetH(h, [hs[h] EXCEPT !.pc = "fetch"])
  /\ UNCHANGED <<now, played, dbvars, fetched, evs, scoreOut, bk, sched>>

\* process_match: watcher.match.by_id returns the payload
FetchOk(h) ==
  /\ hs[h].pc = "fetch"
  /\ SetH(h, [hs[h] EXCEPT !.pc = "store", !.info = <<played[hs[h].mid]>>])
  /\ fetched' = [fetched EXCEPT ![hs[h].mid] = @ + 1]
  /\ UNCHANGED <<now, played, dbvars, evs, scoreOut, bk, sched>>

\* process_match: watcher.match.by_id raises
FetchFail(h) ==
  /\ hs[h].pc = "fetch"
  /\ SetH(h, Raise(h))
  /\ UNCHANGED <<now, played, dbvars, fetched, evs, scoreOut, bk, sched>>

\* process_match: INSERT INTO match_cache; commit
CacheStore(h) ==
  /\ hs[h].pc = "store"
  /\ IF CacheRows(match_cache, hs[h].mid) # {}
       THEN /\ SetH(h, Raise(h))
            /\ UNCHANGED match_cache
       ELSE /\ match_cache' = match_cache \cup
                 {[match_id |-> hs[h].mid, info_json |-> JsonDumps(hs[h].info[1])]}
            /\ SetH(h, AfterInfo(h, hs[h].info[1]))
  /\ UNCHANGED <<now, played, matches, match_events, streak_bank, user_points,
                 fetched, evs, scoreOut, bk, sched>>

\* after the commit of the loop body: processed, the counters, the break
AfterPersistLateBreak(r) ==
  IF r.rec[1].events[1] = "derrota"
    THEN [r EXCEPT !.defeats = r.defeats + 1,
                   !.processed = Append(r.processed, r.rec[1].match_id),
                   !.rec = <<>>,
                   !.pc = IF r.defeats + 1 > DAILY_DEF_LIMIT
                            THEN "score" ELSE "loop"]
    ELSE [r EXCEPT !.victories = r.victories + 1,
                   !.processed = Append(r.processed, r.rec[1].match_id),
                   !.rec = <<>>, !.pc = "loop"]

AfterPersist(r) ==
  IF r.rec[1].events[1] = "derrota"
    THEN [r EXCEPT !.defeats = r.defeats + 1,
                   !.processed = Append(r.processed, r.rec[1].match_id),
                   !.rec = <<>>,
                   !.pc = IF r.defeats + 1 >= DAILY_DEF_LIMIT
                            THEN "score" ELSE "loop"]
    ELSE [r EXCEPT !.victories = r.victories + 1,
                   !.processed = Append(r.processed, r.rec[1].match_id),
                   !.rec = <<>>, !.pc = "loop"]

\* INSERT INTO matches; INSERT OR IGNORE INTO match_events; update_streak up
\* to its first commit, which commits the three together
Persist(h) ==
  /\ hs[h].pc = "persist"
  /\ LET rec  == hs[h].rec[1]
         evt  == rec.events[1]
         date == DateStr(rec.raw_creation)
         us   == update_streak_begin(streak_bank, date, evt = "victoria")
     IN IF MatchKeyTaken(matches, rec.match_id)
          THEN /\ SetH(h, Raise(h))
               /\ UNCHANGED <<matches, match_events, streak_bank>>
          ELSE /\ matches' = matches \cup {MatchRow(rec)}
               /\ match_events' = match_events \cup {EventRow(rec, evt)}
               /\ streak_bank' = us.bank
               /\ IF us.more
                    THEN SetH(h, [hs[h] EXCEPT !.pc = "streak"])
                    ELSE SetH(h, AfterPersist(hs[h]))
  /\ UNCHANGED <<now, played, user_points, match_cache, fetched, evs, scoreOut, bk, sched>>

\* the UPDATE and commit of update_streak after it created the row
StreakUpdate(h) ==
  /\ hs[h].pc = "streak"
  /\ LET rec == hs[h].rec[1] IN
       streak_bank' = update_streak_end(streak_bank, DateStr(rec.raw_creation),
                                        rec.events[1] = "victoria")
  /\ SetH(h, AfterPersist(hs[h]))
  /\ UNCHANGED <<now, played, matches, match_events, user_points, match_cache,
                 fetched, evs, scoreOut, bk, sched>>

\* variant: a connection that commits each statement, failing after the
\* INSERT INTO matches
SqlErrorAutocommit(h) ==
  /\ hs[h].pc = "persist"
  /\ ~MatchKeyTaken(matches, hs[h].rec[1].match_id)
  /\ matches' = matches \cup {MatchRow(hs[h].rec[1])}
  /\ SetH(h, Raise(h))
  /\ UNCHANGED <<now, played, match_events, streak_bank, user_points,
                 match_cache, fetched, evs, scoreOut, bk, sched>>

\* sqlite3 raises in a statement of the loop body. Before the first commit
\* (pc persist) the dropped connection rolls the candidate's inserts back;
\* after it (pc streak) the rows committed by update_streak stay
SqlError(h) ==
  /\ hs[h].pc \in {"persist", "streak"}
  /\ SetH(h, Raise(h))
  /\ UNCHANGED <<now, played, dbvars, fetched, evs, scoreOut, bk, sched>>

\* calculate_dynamic_points(conn, c, cutoff_dt, summoner)
Score(h) ==
  /\ hs[h].pc = "score"
  /\ SetH(h, [hs[h] EXCEPT
        !.pc = "points",
        !.daily_points = calculate_dynamic_points(
            DayEventRows(matches, match_events, DateStr(hs[h].cutoff),
                         hs[h].summoner))])
  /\ UNCHANGED <<now, played, dbvars, fetched, evs, scoreOut, bk, sched>>

\* SELECT total_points, last_accumulated_date; add the day's points unless
\* they were added today
ReadPoints(h) ==
  /\ hs[h].pc = "points"
  /\ LET rows       == PointsRows(user_points, hs[h].summoner)
         prev_total == IF rows = {} THEN 0
                       ELSE (CHOOSE r \in rows : TRUE).total_points
         last_date  == IF rows = {} THEN <<>>
                       ELSE (CHOOSE r \in rows : TRUE).last_accumulated_date
         today_str  == DateStr(hs[h].cutoff)
     IN IF DatePart(last_date) # today_str
          THEN SetH(h, [hs[h] EXCEPT
                  !.pc = "write",
                  !.new_total = prev_total + hs[h].daily_points,
                  !.last_accumulated = TimestampStr(hs[h].local_now)])
          ELSE SetH(h, [hs[h] EXCEPT
                  !.pc = "write",
                  !.new_total = prev_total,
                  !.last_accumulated = last_date])
  /\ UNCHANGED <<now, played, dbvars, fetched, evs, scoreOut, bk, sched>>

\* INSERT INTO user_points ... ON CONFLICT DO UPDATE; commit; the response
Respond(h) ==
  /\ hs[h].pc = "write"
  /\ user_points' =
       {r \in user_points : r.summoner_name # hs[h].summoner} \cup
       {[summoner_name         |-> hs[h].summoner,
         total_points          |-> hs[h].new_total,
         last_accumulated_date |-> hs[h].last_accumulated]}
  /\ LET resp == [derrotas       |-> hs[h].defeats,
                  victorias      |-> hs[h].victories,
                  puntos_diarios |-> hs[h].daily_points,
                  puntos_totales |-> hs[h].new_total,
                  plan_base      |-> generate_base_plan(hs[h].defeats)]
     IN /\ SetH(h, [IdleHandler EXCEPT
                      !.pc = "done", !.resp = <<resp>>,
                      !.summoner = hs[h].summoner, !.cutoff = hs[h].cutoff,
                      !.all = hs[h].all, !.cands = hs[h].cands,
                      !.processed = hs[h].processed,
                      !.fresh = hs[h].fresh, !.first = hs[h].first,
                      !.snap = <<matches, match_events>>])
  /\ UNCHANGED <<now, played, matches, match_events, streak_bank, match_cache,
                 fetched, evs, scoreOut, bk, sched>>

\* -------------------------------------------------------- scoring harness
AddEvent(e) ==
  /\ Len(evs) < MaxEvents
  /\ evs' = Append(evs, e)
  /\ scoreOut' = <<>>
  /\ UNCHANGED <<now, played, dbvars, hs, fetched, bk, sched>>

ScoreEvents ==
  /\ scoreOut = <<>>
  /\ scoreOut' = <<calculate_dynamic_points(evs)>>
  /\ UNCHANGED <<now, played, dbvars, hs, fetched, evs, bk, sched>>

\* ---------------------------------------------------- streak bank harness
\* the starting tables: a row of an earlier date or none, and for today no
\* row or a row with any pending_streak and has_banked
StartBanks ==
  {old \cup cur :
     old \in {{}, {[date |-> 0, pending_streak |-> 1, has_banked |-> 1]}},
     cur \in {{}} \cup {{[date |-> 1, pending_streak |-> p, has_banked |-> b]} :
                          p \in 0..MaxPending, b \in {0, 1}}}

InitBank ==
  /\ now = DayLen
  /\ played = <<>>
  /\ matches = {}
  /\ match_events = {}
  /\ streak_bank \in StartBanks
  /\ user_points = {}
  /\ match_cache = {}
  /\ hs = [h \in Handlers |-> IdleHandler]
  /\ fetched = <<>>
  /\ evs = <<>>
  /\ scoreOut = <<>>
  /\ \E w \in BOOLEAN :
       bk = [NoBankCalls EXCEPT !.start = streak_bank, !.is_victory = w,
                                !.upc = "todo"]
  /\ sched = [thread |-> "ended", next_run |-> <<2 * DayLen>>]

\* update_streak(date, is_victory) up to its first commit
BankUpdateBegin ==
  /\ bk.upc = "todo"
  /\ LET us == update_streak_begin(streak_bank, DateStr(now), bk.is_victory) IN
       /\ streak_bank' = us.bank
       /\ bk' = [bk EXCEPT !.upc = IF us.more THEN "mid" ELSE "done",
                           !.last = <<>>]
  /\ UNCHANGED <<now, played, matches, match_events, user_points,
                 match_cache, hs, fetched, evs, scoreOut, sched>>

\* update_streak after the row was created
BankUpdateEnd ==
  /\ bk.upc = "mid"
  /\ streak_bank' = update_streak_end(streak_bank, DateStr(now), bk.is_victory)
  /\ bk' = [bk EXCEPT !.upc = "done", !.last = <<>>]
  /\ UNCHANGED <<now, played, matches, match_events, user_points,
                 match_cache, hs, fetched, evs, scoreOut, sched>>

\* mark_streak_banked(date); last: the table before and after the call, and
\* whether the call follows another one with nothing in between
BankCall ==
  /\ bk.upc # "idle"
  /\ bk.banks < MaxBankCalls
  /\ streak_bank' = mark_streak_banked(streak_bank, DateStr(now))
  /\ bk' = [bk EXCEPT !.banks = @ + 1,
                      !.banked_first = IF bk.banks = 0 THEN bk.upc = "todo" ELSE @,
                      !.last = <<[before |-> streak_bank, after |-> streak_bank',
                                 again |-> bk.last # <<>>]>>]
  /\ UNCHANGED <<now, played, matches, match_events, user_points,
                 match_cache, hs, fetched, evs, scoreOut, sched>>

\* --------------------------------------------------------- specifications
Request(h) ==
  \/ \E s \in Players : StartRequest(h, s)
  \/ LoopHead(h)
  \/ CacheLookup(h)
  \/ FetchOk(h)
  \/ FetchFail(h)
  \/ CacheStore(h)
  \/ Persist(h)
  \/ StreakUpdate(h)
  \/ Score(h)
  \/ ReadPoints(h)
  \/ Respond(h)

\* requests of both players, one at a time, over every payload shape
Next ==
  \/ \E k \in AllKinds : PlayMatch(k, MaxMatches)
  \/ \E h \in SeqHandlers : Request(h)

Spec == Init /\ [][Next]_vars

\* requests of both players, one at a time, over several days
NextDays ==
  \/ \E k \in QuotaKinds : PlayMatch(k, MaxMatchesD)
  \/ NextDay
  \/ \E h \in SeqHandlers : Request(h)

SpecDays == Init /\ [][NextDays]_vars

\* requests of both players, one at a time, with statements that fail
NextFail ==
  \/ \E k \in QuotaKinds : PlayMatch(k, MaxMatchesF)
  \/ \E h \in SeqHandlers : Request(h) \/ SqlError(h)

SpecFail == Init /\ [][NextFail]_vars

\* one player, one request at a time, one day, a provider that answers
RequestQ(h) ==
  \/ StartRequest(h, "A")
  \/ LoopHead(h)
  \/ CacheLookup(h)
  \/ FetchOk(h)
  \/ CacheStore(h)
  \/ Persist(h)
  \/ StreakUpdate(h)
  \/ Score(h)
  \/ ReadPoints(h)
  \/ Respond(h)

NextQuota ==
  \/ \E k \in QuotaKinds : PlayMatch(k, MaxMatchesQ)
  \/ \E h \in SeqHandlers : RequestQ(h)

SpecQuota == Init /\ [][NextQuota]_vars

\* requests of player A, one at a time, over several days, with matches
\* that run over midnight
NextNight ==
  \/ \E k \in QuotaKinds : PlayMatch(k, MaxMatchesN)
  \/ \E k \in QuotaKinds : PlayOvernight(k, MaxMatchesN)
  \/ NextDay
  \/ \E h \in SeqHandlers : RequestQ(h)

SpecNight == Init /\ [][NextNight]_vars

\* concurrent requests and the daily job around one match
NextRace ==
  \/ \E k \in RaceKinds : PlayMatch(k, MaxMatchesR)
  \/ DailyBankJob
  \/ \E h \in Handlers : Request(h)

SpecRace == Init /\ [][NextRace]_vars

NextScore ==
  \/ \E e \in {"victoria", "derrota"} : AddEvent(e)
  \/ ScoreEvents

SpecScore == Init /\ [][NextScore]_vars

\* midnight passes while no request is under way
QuietMidnight ==
  /\ \A h \in Handlers : hs[h].pc \in {"idle", "done"}
  /\ NextDay

\* the process from its start: the scheduler thread, requests of player A,
\* matches and midnights between requests
InitSched ==
  /\ now = 0
  /\ played = <<>>
  /\ matches = {}
  /\ match_events = {}
  /\ streak_bank = {}
  /\ user_points = {}
  /\ match_cache = {}
  /\ hs = [h \in Handlers |-> IdleHandler]
  /\ fetched = <<>>
  /\ evs = <<>>
  /\ scoreOut = <<>>
  /\ bk = NoBankCalls
  /\ sched = [thread |-> "new", next_run |-> <<>>]

NextSched ==
  \/ SchedulerThread
  \/ \E k \in QuotaKinds : PlayMatch(k, MaxMatchesS)
  \/ QuietMidnight
  \/ \E h \in SeqHandlers : RequestQ(h)

SpecSched == InitSched /\ [][NextSched]_vars

\* one update_streak and up to MaxBankCalls mark_streak_banked on one date,
\* in every order, from every starting table
NextBank ==
  \/ BankUpdateBegin
  \/ BankUpdateEnd
  \/ BankCall

SpecBank == InitBank /\ [][NextBank]_vars

\* ================================================================= claims
Done(h) == hs[h].pc = "done"

\* a payload the filter must let through for a player, in the claims' words
Acceptable(info, puuid) ==
  /\ info.gameDuration >= 300
  /\ ~info.gameEndedInEarlySurrender
  /\ info.queueId \in {400, 420, 440}
  /\ puuid \in {p.puuid : p \in info.participants}

LostBy(info, puuid) == \E p \in info.participants : p.puuid = puuid /\ ~p.win

\* loss events persisted for a player for the day of the clock
LossesToday(s) ==
  Cardinality({e \in match_events :
     /\ e.summoner_name = s
     /\ e.event = "derrota"
     /\ \E m \in matches : m.match_id = e.match_id
                            /\ m.game_creation.date = Day(now)})

\* C1: two consecutive completed requests for the same player with the same
\* candidate ids and payloads leave matches and match_events after the second
\* as they were after the first, and report the same loss and win counts.
C1_SecondRunChangesNothing ==
  \A h \in Handlers : (Done(h) /\ hs[h].first # <<>>) =>
     /\ hs[h].snap = hs[h].first[1].snap
     /\ hs[h].resp[1].derrotas  = hs[h].first[1].derrotas
     /\ hs[h].resp[1].victorias = hs[h].first[1].victorias

\* C2: the loss events persisted for a player for the current day never
\* exceed DAILY_DEF_LIMIT.
C2_LossesWithinQuota ==
  \A s \in Players : LossesToday(s) <= DAILY_DEF_LIMIT

\* candidates of a request that are acceptable losses of its day
IsDayLoss(h, mid) ==
  /\ Acceptable(played[mid], get_puuid(hs[h].summoner))
  /\ LostBy(played[mid], get_puuid(hs[h].summoner))
  /\ played[mid].gameCreation >= hs[h].cutoff

LossesUpTo(h, n) ==
  Cardinality({i \in 1..n : IsDayLoss(h, hs[h].all[i])})

\* position in the candidate list of the one that produces the 5th loss
FifthLossAt(h) ==
  CHOOSE i \in 1..Len(hs[h].all) :
    IsDayLoss(h, hs[h].all[i]) /\ LossesUpTo(h, i) = 5

SixLossRun(h) ==
  /\ Done(h)
  /\ hs[h].fresh
  /\ LossesUpTo(h, Len(hs[h].all)) >= 6

\* C3: from a day without events of the player, one ingestion over
\* candidates holding 6 losses persists exactly 5 loss events, reports 5
\* losses, and leaves every candidate after the 5th loss unprocessed.
C3_StopsAtFifthLoss ==
  \A h \in Handlers : SixLossRun(h) =>
    LET rest == SubSeq(hs[h].all, FifthLossAt(h) + 1, Len(hs[h].all)) IN
      /\ LossesToday(hs[h].summoner) = 5
      /\ hs[h].resp[1].derrotas = 5
      /\ hs[h].cands = rest
      /\ \A i \in 1..Len(rest) :
           /\ ~AlreadyRecorded(matches, rest[i], hs[h].summoner)
           /\ \A j \in 1..Len(hs[h].processed) : hs[h].processed[j] # rest[i]

C3_Witness ==
  \E h \in Handlers :
    /\ SixLossRun(h)
    /\ Len(hs[h].cands) >= 1
    /\ Len(hs[h].processed) >= 5

\* the fold of the scoring rules, as the specification words it
FoldStart == [points |-> 0, perWin |-> 5, streak |-> 0, losses |-> 0]

RECURSIVE FoldFrom(_, _)
FoldFrom(f, s) ==
  IF s = <<>> \/ f.losses = 5 THEN f
  ELSE IF Head(s) = "victoria"
    THEN FoldFrom([f EXCEPT !.streak = f.streak + 1], Tail(s))
    ELSE FoldFrom([points |-> f.points + f.streak * f.perWin,
                   perWin |-> f.perWin + f.streak * f.perWin,
                   streak |-> 0,
                   losses |-> f.losses + 1], Tail(s))

Fold(s) == FoldFrom(FoldStart, s)

RECURSIVE TrailingWins(_)
TrailingWins(s) ==
  IF s = <<>> \/ s[Len(s)] # "victoria" THEN 0
  ELSE 1 + TrailingWins(SubSeq(s, 1, Len(s) - 1))

WithoutTrailingWins(s) == SubSeq(s, 1, Len(s) - TrailingWins(s))

\* C4: on a sequence without trailing wins calculate_dynamic_points returns
\* the fold's points; [win,win,loss] gives 10 and
\* [win,win,win,loss,win,loss] gives 35.
C4_ScoreIsFold ==
  scoreOut # <<>> =>
    /\ TrailingWins(evs) = 0 => scoreOut[1] = Fold(evs).points
    /\ evs = <<"victoria", "victoria", "derrota">> => scoreOut[1] = 10
    /\ evs = <<"victoria", "victoria", "victoria", "derrota",
               "victoria", "derrota">> => scoreOut[1] = 35

C4_Witness ==
  /\ scoreOut # <<>>
  /\ evs = <<"victoria", "victoria", "victoria", "derrota",
             "victoria", "derrota">>

\* C5 as claimed: trailing wins add nothing to the score.
C5_TrailingWinsAddNothing ==
  scoreOut # <<>> =>
    scoreOut[1] = calculate_dynamic_points(WithoutTrailingWins(evs))

\* C5 amended: the score of a sequence is the score of the sequence without
\* its trailing wins plus (trailing wins) x (the per-win value the fold has
\* reached there), and plus nothing once the sequence holds 5 losses.
C5_TrailingWinsAddStreakValue ==
  scoreOut # <<>> =>
    LET base == WithoutTrailingWins(evs) IN
      scoreOut[1] = calculate_dynamic_points(base) +
                    (IF Fold(base).losses >= 5 THEN 0
                     ELSE TrailingWins(evs) * Fold(base).perWin)

C5_Witness ==
  /\ scoreOut = <<25>>
  /\ evs = <<"victoria", "derrota", "victoria", "victoria">>

\* the greedy discount of the template, as the specification words it
RECURSIVE GreedyItems(_, _, _)
GreedyItems(i, losses, points) ==
  IF i > Len(FULL_WORKOUT) THEN <<>>
  ELSE LET reps == FULL_WORKOUT[i][2] * losses IN
    IF points >= reps THEN GreedyItems(i + 1, losses, points - reps)
    ELSE IF points > 0
      THEN <<[nombre |-> FULL_WORKOUT[i][1], reps |-> reps - points]>>
             \o GreedyItems(i + 1, losses, 0)
      ELSE <<[nombre |-> FULL_WORKOUT[i][1], reps |-> reps]>>
             \o GreedyItems(i + 1, losses, 0)

\* C6 as claimed: the plan of a response is the greedy discount of the
\* template by the day's points.
C6_PlanIsGreedyDiscount ==
  \A h \in Handlers : Done(h) =>
    hs[h].resp[1].plan_base =
      GreedyItems(1, hs[h].resp[1].derrotas, hs[h].resp[1].puntos_diarios)

\* C6 amended: the plan of a response lists every template item in template
\* order with reps = baseReps * losses, whatever the points.
C6_PlanIsUndiscounted ==
  \A h \in Handlers : Done(h) =>
    LET plan == hs[h].resp[1].plan_base IN
      /\ Len(plan) = Len(FULL_WORKOUT)
      /\ \A i \in 1..Len(plan) :
           /\ plan[i].nombre = FULL_WORKOUT[i][1]
           /\ plan[i].reps = FULL_WORKOUT[i][2] * hs[h].resp[1].derrotas

C6_Witness ==
  \E h \in Handlers :
    /\ Done(h)
    /\ hs[h].resp[1].derrotas = 1
    /\ hs[h].resp[1].puntos_diarios = 5
    /\ hs[h].resp[1].plan_base[1].reps = 40

\* no event of the player is persisted for the day of the request
NoEventsOfDay(h) ==
  \A e \in match_events : e.summoner_name = hs[h].summoner =>
    \A m \in matches : m.match_id = e.match_id =>
      m.game_creation.date < Day(hs[h].cutoff)

\* C7 as claimed: a day without events scores 0 and zero losses give an
\* empty plan.
C7_ZeroDayEmptyPlan ==
  \A h \in Handlers : Done(h) =>
    /\ NoEventsOfDay(h) => hs[h].resp[1].puntos_diarios = 0
    /\ hs[h].resp[1].derrotas = 0 => hs[h].resp[1].plan_base = <<>>

\* C7 amended: a day without events scores 0, and zero losses give the whole
\* template with 0 reps on every item, whatever the points.
C7_ZeroDayZeroReps ==
  \A h \in Handlers : Done(h) =>
    /\ NoEventsOfDay(h) => hs[h].resp[1].puntos_diarios = 0
    /\ hs[h].resp[1].derrotas = 0 =>
         /\ Len(hs[h].resp[1].plan_base) = Len(FULL_WORKOUT)
         /\ \A i \in 1..Len(FULL_WORKOUT) :
              hs[h].resp[1].plan_base[i].reps = 0

C7_Witness ==
  \E h \in Handlers :
    /\ Done(h)
    /\ NoEventsOfDay(h)
    /\ \E e \in match_events : e.summoner_name = hs[h].summoner
    /\ hs[h].resp[1].derrotas = 0
    /\ hs[h].resp[1].plan_base[1].reps = 0

C9_FetchedAtMostOnce ==
  \A i \in 1..Len(fetched) : fetched[i] <= 1

\* C10: a streak_bank row with has_banked = 1 never changes again.
C10_BankedRowFrozen ==
  [][\A r \in streak_bank : r.has_banked = 1 => r \in streak_bank']_vars

\* C11: a mark_streak_banked(date) and an update_streak(date, is_victory), in
\* either order or interleaved, end in the same streak_bank: the one of
\* update then bank, which is also the one of bank then update
TodayDone == bk.upc = "done" /\ bk.banks = 1

UpdateThenBank ==
  mark_streak_banked(update_streak(bk.start, DateStr(now), bk.is_victory),
                     DateStr(now))

BankThenUpdate ==
  update_streak(mark_streak_banked(bk.start, DateStr(now)), DateStr(now),
                bk.is_victory)

C11_OrdersCommute ==
  TodayDone => streak_bank = UpdateThenBank /\ streak_bank = BankThenUpdate

\* C11 as the code has it: the final row depends on the order. The bank
\* first: a row that existed keeps its pending_streak and is banked, a row
\* that did not is created by the update and stays unbanked. The update's
\* first write first: the row is banked and holds the updated pending_streak
\* (the old one if it was banked from the start). Other dates are untouched.
ExpectedRow ==
  LET rows == StreakRows(bk.start, DateStr(now))
      won  == IF bk.is_victory THEN 1 ELSE 0
      row  == CHOOSE r \in rows : TRUE
  IN IF rows = {}
       THEN [date |-> DateStr(now), pending_streak |-> won,
             has_banked |-> IF bk.banked_first THEN 0 ELSE 1]
       ELSE IF bk.banked_first \/ row.has_banked = 1
         THEN [row EXCEPT !.has_banked = 1]
         ELSE [row EXCEPT !.has_banked = 1,
                          !.pending_streak = IF bk.is_victory THEN @ + 1 ELSE 0]

C11_FinalRowByOrder ==
  TodayDone =>
    streak_bank = {r \in bk.start : r.date # DateStr(now)} \cup {ExpectedRow}

C11_Witness ==
  /\ TodayDone
  /\ bk.banked_first
  /\ bk.is_victory
  /\ \E r \in bk.start : r.date = DateStr(now) /\ r.has_banked = 0
  /\ streak_bank # UpdateThenBank

\* C12: a second mark_streak_banked(date) right after a first leaves the
\* table as the first left it, and a call for a date without a row leaves
\* the table as it was, without a row of that date
C12_BankIdempotent ==
  \A c \in {bk.last[i] : i \in DOMAIN bk.last} :
    /\ c.again => c.after = c.before
    /\ StreakRows(c.before, DateStr(now)) = {} => c.after = c.before

C12_Witness ==
  /\ bk.last # <<>>
  /\ bk.last[1].again
  /\ \E r \in streak_bank :
       r.date = DateStr(now) /\ r.has_banked = 1 /\ r.pending_streak > 0
  /\ \E r \in bk.start : r.date = DateStr(now) /\ r.has_banked = 0

\* C13: while every request is of one player and every matches row is that
\* player's, no request fails at its inserts into matches and match_events,
\* and the tables hold each match of the player once with one event
OnlyPlayer(s) ==
  /\ \A g \in Handlers : hs[g].summoner = s
  /\ \A m \in matches : m.summoner_name = s

RecordedOnce(ms, es) ==
  /\ \A m1, m2 \in ms :
       m1.match_id = m2.match_id /\ m1.summoner_name = m2.summoner_name
         => m1 = m2
  /\ \A m \in ms :
       Cardinality({e \in es : e.match_id = m.match_id
                                /\ e.summoner_name = m.summoner_name}) = 1

C13_ConcurrentSamePlayer ==
  [][\A h \in Handlers :
       hs[h].pc = "persist" /\ OnlyPlayer(hs[h].summoner)
         => hs'[h].pc # "failed" /\ RecordedOnce(matches', match_events')]_vars

\* C14: a request that comes to persist a match for its player, also when
\* another player's request has recorded the same match, goes on and leaves
\* one matches row and one match_events row of (match, player), next to the
\* rows that were there
PersistStep(h) == hs[h].pc = "persist" /\ hs'[h] # hs[h]

C14_RecordedPerPlayer ==
  [][\A h \in Handlers :
       PersistStep(h) =>
         /\ hs'[h].pc # "failed"
         /\ AlreadyRecorded(matches', hs[h].mid, hs[h].summoner)
         /\ Cardinality({e \in match_events' :
                           /\ e.match_id = hs[h].mid
                           /\ e.summoner_name = hs[h].summoner}) = 1
         /\ matches \subseteq matches'
         /\ match_events \subseteq match_events']_vars

\* C15: when the inserts of a candidate fail (the request leaves persist and
\* no matches row was added), the tables are as before, the counters are not
\* advanced and the request is back at the head of its loop
C15_FailureSkipsCandidate ==
  [][\A h \in Handlers :
       PersistStep(h) /\ matches' = matches =>
         /\ match_events' = match_events
         /\ streak_bank' = streak_bank
         /\ hs'[h].defeats = hs[h].defeats
         /\ hs'[h].victories = hs[h].victories
         /\ hs'[h].pc = "loop"]_vars

\* C16: in every committed state a matches row of (match, player) exists
\* exactly when one match_events row of (match, player) does
EventsOf(mid, s) ==
  {e \in match_events : e.match_id = mid /\ e.summoner_name = s}

C16_RowIffOneEvent ==
  /\ \A m \in matches :
       Cardinality(EventsOf(m.match_id, m.summoner_name)) = 1
  /\ \A e \in match_events :
       /\ AlreadyRecorded(matches, e.match_id, e.summoner_name)
       /\ e.event \in {"victoria", "derrota"}

\* a request that failed on a candidate after update_streak had committed
\* the candidate's rows
C16_Witness ==
  \E h \in Handlers :
    /\ hs[h].pc = "failed"
    /\ AlreadyRecorded(matches, hs[h].mid, hs[h].summoner)
    /\ Cardinality(EventsOf(hs[h].mid, hs[h].summoner)) = 1

\* C17: when a request of the only active player has completed on a day that
\* is not banked, pending_streak of the day is the number of wins at the
\* chronological end of the day's persisted events of the player
C17_PendingIsTrailingWins ==
  \A h \in Handlers : Done(h) =>
    \A r \in StreakRows(streak_bank, DateStr(hs[h].cutoff)) :
      r.has_banked = 0 =>
        r.pending_streak =
          TrailingWins(DayEventRows(matches, match_events,
                                    DateStr(hs[h].cutoff), hs[h].summoner))

\* C18: at the end of a request, an acceptable candidate it looked at was
\* ingested only if it ended at or after the start of the request's day, and
\* is left unrecorded only if it ended before it
Visited(h) ==
  {hs[h].all[i] : i \in 1..(Len(hs[h].all) - Len(hs[h].cands))}

Ingested(h) == {hs[h].processed[i] : i \in DOMAIN hs[h].processed}

C18_SkippedIffEndedBefore ==
  \A h \in Handlers : Done(h) =>
    \A m \in Visited(h) :
      Acceptable(played[m], get_puuid(hs[h].summoner)) =>
        /\ m \in Ingested(h) => played[m].gameEndTimestamp >= hs[h].cutoff
        /\ ~AlreadyRecorded(matches, m, hs[h].summoner)
             => played[m].gameEndTimestamp < hs[h].cutoff

\* C18 as the code has it: the test is on the creation time of the match
C18_SkippedIffCreatedBefore ==
  \A h \in Handlers : Done(h) =>
    \A m \in Visited(h) :
      Acceptable(played[m], get_puuid(hs[h].summoner)) =>
        /\ m \in Ingested(h) => played[m].gameCreation >= hs[h].cutoff
        /\ ~AlreadyRecorded(matches, m, hs[h].summoner)
             => played[m].gameCreation < hs[h].cutoff

\* a request has skipped an acceptable match created before midnight and
\* ended after it
C18_Witness ==
  \E h \in Handlers :
    /\ Done(h)
    /\ \E m \in Visited(h) :
         /\ Acceptable(played[m], get_puuid(hs[h].summoner))
         /\ played[m].gameCreation < hs[h].cutoff
         /\ played[m].gameEndTimestamp >= hs[h].cutoff
         /\ ~AlreadyRecorded(matches, m, hs[h].summoner)

\* C19: when the clock leaves 00:00 of a day for which the scheduler thread
\* had registered the job, the streak_bank rows of the day that ended at
\* that midnight are banked
LeavesMidnight ==
  /\ now' # now
  /\ now % DayLen = 0
  /\ Day(now) > 0
  /\ sched.thread = "ended"
  /\ sched.next_run[1] <= now

C19_EndedDayIsBanked ==
  [][LeavesMidnight =>
       \A r \in streak_bank : r.date = DateStr(now - 1) => r.has_banked = 1]_vars

\* C20: once the user_points row of a summoner carries today's date in
\* last_accumulated_date, no step of a request changes its total_points or
\* its last_accumulated_date for the rest of the day
C20_AccumulatedOncePerDay ==
  [][\A r \in user_points :
       r.last_accumulated_date[1] = Day(now) => r \in user_points']_vars

\* a request has answered with more points for the day than the total, the
\* total having been written earlier the same day
C20_Witness ==
  \E h \in Handlers :
    /\ Done(h)
    /\ hs[h].cutoff = CutoffOf(now)
    /\ hs[h].resp[1].puntos_diarios > hs[h].resp[1].puntos_totales
    /\ hs[h].resp[1].puntos_totales > 0
    /\ \E r \in PointsRows(user_points, hs[h].summoner) :
         /\ r.last_accumulated_date[1] = Day(now)
         /\ r.total_points = hs[h].resp[1].puntos_totales

====
